---- MODULE Spec2Model ----
(***************************************************************************)
(* Model of src/main.py: the TLDR newsletter pipeline.                     *)
(*                                                                         *)
(*   SpecExtract : extract_articles_from_html as a step machine, one step  *)
(*                 per candidate table, over a bounded family of HTML      *)
(*                 documents.                                              *)
(*   Spec        : one run of the program (__main__), from the mailbox     *)
(*                 connection to the dispatch of the rewritten text.       *)
(*                                                                         *)
(* Text is modelled by real strings: substring tests, prefixes, slices and *)
(* whitespace stripping are computed character by character.               *)
(***************************************************************************)
EXTENDS Integers, Sequences, FiniteSets, TLC

\* ------------------------------------------------------------------------
\* Bounds of the model
\* ------------------------------------------------------------------------
MaxHead == 2            \* tables of a free-form document
MaxLead == 1            \* free-form tables ahead of a run of article tables
MaxFill == 21           \* length of a run of well-formed article tables
NumSenders == 2         \* len(config.TLDR_SENDER_EMAILS)
NumRecipients == 2      \* len(config.RECIPIENT_EMAILS)
MaxParts == 3           \* parts of a multi-part message, its container aside
MaxItems == 2           \* children of the outer table of a nested document

\* ------------------------------------------------------------------------
\* Program constants
\* ------------------------------------------------------------------------
MaxArticles == 20       \* articles[:20]
SummaryCap == 300       \* summary[:300]
FallbackCap == 200      \* title[:200]
MinSummaryLen == 30     \* len(span_text) > 30

\* ------------------------------------------------------------------------
\* Strings
\* ------------------------------------------------------------------------
Min(a, b) == IF a < b THEN a ELSE b

\* s[:n]
Take(s, n) == SubSeq(s, 1, Min(n, Len(s)))

\* p in s
Contains(s, p) ==
    \E i \in 1..(Len(s) - Len(p) + 1) : SubSeq(s, i, i + Len(p) - 1) = p

\* s.startswith(p)
StartsWith(s, p) == Len(p) <= Len(s) /\ SubSeq(s, 1, Len(p)) = p

IsSpace(c) == c \in {" ", "\t", "\n"}

RECURSIVE LStrip(_)
LStrip(s) ==
    IF Len(s) > 0 /\ IsSpace(SubSeq(s, 1, 1))
    THEN LStrip(SubSeq(s, 2, Len(s)))
    ELSE s

RECURSIVE RStrip(_)
RStrip(s) ==
    IF Len(s) > 0 /\ IsSpace(SubSeq(s, Len(s), Len(s)))
    THEN RStrip(SubSeq(s, 1, Len(s) - 1))
    ELSE s

\* element.get_text(strip=True), for an element holding one text node
GetText(s) == RStrip(LStrip(s))

RECURSIVE Rep(_, _)
Rep(s, n) == IF n = 0 THEN "" ELSE s \o Rep(s, n - 1)

\* ------------------------------------------------------------------------
\* HTML documents: the tables of the document in document order.
\*   table  = [align, anchors, spans]
\*   anchor = [hasHref, href, strong]   strong: <<>> or <<raw text>>
\*   span   = [style, text]             style "" when the attribute is absent
\* ------------------------------------------------------------------------
Anchor(href, strong) == [hasHref |-> TRUE, href |-> href, strong |-> strong, nest |-> 0]
BareAnchor(strong) == [hasHref |-> FALSE, href |-> "", strong |-> strong, nest |-> 0]
Span(style, text) == [style |-> style, text |-> text, nest |-> 0]
Table(anchors, spans) == [align |-> "center", anchors |-> anchors, spans |-> spans]

FontStyle == "font-family:Helvetica,Arial;font-size:14px"

\* A table with its children in document order: anchors, spans and tables.
Tree(align, items) == [align |-> align, items |-> items]
AnchorItem(anchor) == [kind |-> "a", el |-> anchor]
SpanItem(span) == [kind |-> "span", el |-> span]
TableItem(tree) == [kind |-> "table", el |-> tree]

\* table.find('a', ...) and table.find_all('span') search every descendant:
\* the elements of one kind below a table, in document order.  nest counts
\* the align=center tables that lie between the element and that table.
RECURSIVE Reach(_, _, _)
Reach(tree, kind, d) ==
    LET F[i \in 0..Len(tree.items)] ==
            IF i = 0 THEN <<>>
            ELSE LET it == tree.items[i]
                 IN  F[i - 1] \o
                     (IF it.kind = "table"
                      THEN Reach(it.el, kind, IF it.el.align = "center" THEN d + 1 ELSE d)
                      ELSE IF it.kind = kind THEN <<[it.el EXCEPT !.nest = d]>>
                      ELSE <<>>)
    IN  F[Len(tree.items)]

\* a table as the loop body sees it
ViewOf(tree) ==
    [align |-> tree.align, anchors |-> Reach(tree, "a", 0), spans |-> Reach(tree, "span", 0)]

\* the tables at and below a table, in document order (find_all is recursive)
RECURSIVE TablesOf(_)
TablesOf(tree) ==
    LET F[i \in 0..Len(tree.items)] ==
            IF i = 0 THEN <<ViewOf(tree)>>
            ELSE F[i - 1] \o (IF tree.items[i].kind = "table"
                              THEN TablesOf(tree.items[i].el) ELSE <<>>)
    IN  F[Len(tree.items)]

\* BeautifulSoup(html, 'lxml'): every table of the document, in document order
RECURSIVE ParseTrees(_)
ParseTrees(trees) ==
    IF trees = <<>> THEN <<>> ELSE TablesOf(Head(trees)) \o ParseTrees(Tail(trees))

\* a cap on the candidates scanned instead of on the records kept
FindTablesCapped(html) == Take(SelectSeq(html, LAMBDA t : t.align = "center"), MaxArticles)

\* soup.find_all('table', align='center')
FindTables(html) == SelectSeq(html, LAMBDA t : t.align = "center")

\* the first anchor whose href is not empty
FirstHrefIdxNonEmpty(table) ==
    LET S == {i \in 1..Len(table.anchors) :
                 table.anchors[i].hasHref /\ table.anchors[i].href # ""}
    IN  IF S = {} THEN 0 ELSE CHOOSE i \in S : \A j \in S : i <= j

\* table.find('a', href=True): the first anchor carrying an href attribute
FirstHrefIdx(table) ==
    LET S == {i \in 1..Len(table.anchors) : table.anchors[i].hasHref}
    IN  IF S = {} THEN 0 ELSE CHOOSE i \in S : \A j \in S : i <= j

\* the link-shortener domain forgotten
IsTrackingLinkTldrOnly(url) == Contains(url, "tldr.tech")

\* 'tldr.tech' in link_url or 'techplatforms.com' in link_url
IsTrackingLink(url) == Contains(url, "tldr.tech") \/ Contains(url, "techplatforms.com")

\* the sponsor test on the title
IsSponsorTitle(title) ==
    \/ Contains(title, "(Sponsor)")
    \/ StartsWith(title, "Looking for a practical")
    \/ StartsWith(title, "Get it free")
    \/ StartsWith(title, "Try it free")
    \/ StartsWith(title, "Together With")

\* the link test: not link_url or 'http' not in link_url
IsArticleLink(url) == url # "" /\ Contains(url, "http")

\* the length test off by one: len(span_text) >= 30
SpanQualifiesAtThirty(span, title) ==
    /\ Contains(span.style, "font-family")
    /\ Len(GetText(span.text)) >= MinSummaryLen
    /\ GetText(span.text) # title

\* the span test of the summary scan
SpanQualifies(span, title) ==
    /\ Contains(span.style, "font-family")
    /\ Len(GetText(span.text)) > MinSummaryLen
    /\ GetText(span.text) # title

\* the summary scan with its fallback
PickSummary(table, title) ==
    LET Q == {i \in 1..Len(table.spans) : SpanQualifies(table.spans[i], title)}
        summary == IF Q = {} THEN ""
                   ELSE GetText(table.spans[CHOOSE i \in Q : \A j \in Q : i <= j].text)
    IN  IF summary = "" THEN Take(title, FallbackCap) ELSE summary

\* the filters of one loop iteration: TRUE when the iteration reaches the
\* duplicate check
PassesFilters(table) ==
    LET k == FirstHrefIdx(table) IN
    /\ k # 0
    /\ IsArticleLink(table.anchors[k].href)
    /\ ~IsTrackingLink(table.anchors[k].href)
    /\ table.anchors[k].strong # <<>>
    /\ ~IsSponsorTitle(GetText(table.anchors[k].strong[1]))

\* the record built by an iteration that passed the filters
RecordOf(table) ==
    LET a == table.anchors[FirstHrefIdx(table)]
        title == GetText(a.strong[1])
    IN  [title |-> title,
         summary |-> Take(PickSummary(table, title), SummaryCap),
         link |-> a.href]

\* any(article['link'] == link_url for article in articles)
HasLink(articles, url) == \E i \in 1..Len(articles) : articles[i].link = url

\* the duplicate check left out
ProcessTableNoDedup(articles, table) ==
    IF ~PassesFilters(table) THEN articles ELSE Append(articles, RecordOf(table))

\* one iteration of the loop over the tables
ProcessTable(articles, table) ==
    IF ~PassesFilters(table) THEN articles
    ELSE IF HasLink(articles, RecordOf(table).link) THEN articles
    ELSE Append(articles, RecordOf(table))

\* return articles[:20]
CapArticles(articles) == Take(articles, MaxArticles)

\* the records gathered so far returned from the except branch
OnFaultPartial(articles) == articles

\* the except branch: return []
OnFault(articles) == <<>>

RECURSIVE FoldTables(_, _, _)
FoldTables(articles, tables, i) ==
    IF i > Len(tables) THEN articles
    ELSE FoldTables(ProcessTable(articles, tables[i]), tables, i + 1)

\* the whole function on a pass without fault
ExtractArticles(html) == CapArticles(FoldTables(<<>>, FindTables(html), 1))

\* ------------------------------------------------------------------------
\* The documents checked
\* ------------------------------------------------------------------------
LinkA == "https://example.com/a"
LinkB == "https://example.com/b"
LinkC == "https://example.com/c"
LinkD == "https://example.com/d"
LinkE == "https://example.com/e"
LongText == Rep("0123456789", 50)
LongTitle == Rep("Title ", 38)
UnstyledText == "An unstyled span of more than thirty characters."
ShortText == "exactly thirty characters long"
GoodSummary == "  A summary that is well over thirty characters.\n"

FillerLink(i) == "https://example.com/n" \o ToString(i)
FillerTable(i) ==
    Table(<<Anchor(FillerLink(i), <<"News " \o ToString(i)>>)>>,
          <<Span(FontStyle, "Summary text of the article number " \o ToString(i))>>)
Filler(k) == [i \in 1..k |-> FillerTable(i)]

Titled(link, rawTitle) == Table(<<Anchor(link, <<rawTitle>>)>>, <<>>)

Palette == {
    Table(<<Anchor(LinkA, <<"Alpha">>)>>,
          <<Span("color:red", UnstyledText), Span(FontStyle, ShortText),
            Span(FontStyle, LongText)>>),
    Table(<<Anchor(LinkA, <<" Beta\n">>)>>, <<Span(FontStyle, GoodSummary)>>),
    Titled(FillerLink(1), "Gamma"),
    Table(<<Anchor(LinkB, <<LongTitle>>)>>, <<Span(FontStyle, LongTitle)>>),
    Table(<<BareAnchor(<<"Orphan">>)>>, <<Span(FontStyle, GoodSummary)>>),
    Table(<<BareAnchor(<<"Orphan">>), Anchor(LinkC, <<"Delta">>)>>, <<>>),
    Table(<<Anchor("", <<"Empty">>), Anchor(LinkD, <<"Epsilon">>)>>, <<>>),
    Titled("ftp://example.com/file", "Zeta"),
    Titled("https://tldr.tech/redirect?x=1", "Eta"),
    Titled("https://links.techplatforms.com/abc", "Theta"),
    Table(<<Anchor(LinkC, <<>>)>>, <<Span(FontStyle, GoodSummary)>>),
    Titled(LinkC, "Acme Tool (Sponsor)"),
    Titled(LinkC, "Looking for a practical guide?"),
    Titled(LinkC, "Get it free today"),
    Titled(LinkC, "Try it free now"),
    Titled(LinkC, "Together With Acme"),
    Titled(LinkD, "  "),
    [align |-> "left", anchors |-> <<Anchor(LinkE, <<"Iota">>)>>, spans |-> <<>>]
}

SeqsUpTo(S, n) == UNION {[1..m -> S] : m \in 0..n}

OuterSummary == "A summary that stands in the outer table."

\* children of an outer table: elements of its own, a nested candidate with
\* an article, a nested table that is no candidate, candidates two deep
ItemPalette == {
    AnchorItem(Anchor(LinkA, <<"Alpha">>)),
    SpanItem(Span(FontStyle, OuterSummary)),
    TableItem(Tree("center", <<AnchorItem(Anchor(LinkB, <<"Beta">>)), SpanItem(Span(FontStyle, GoodSummary))>>)),
    TableItem(Tree("left", <<AnchorItem(Anchor(LinkC, <<"Delta">>)), SpanItem(Span(FontStyle, GoodSummary))>>)),
    TableItem(Tree("center", <<TableItem(Tree("center", <<AnchorItem(Anchor(LinkD, <<"Epsilon">>))>>))>>))
}

NestedDocs == {ParseTrees(<<Tree("center", its)>>) : its \in SeqsUpTo(ItemPalette, MaxItems)}

Docs == SeqsUpTo(Palette, MaxHead)
        \cup {h \o Filler(k) : h \in SeqsUpTo(Palette, MaxLead), k \in 1..MaxFill}
        \cup NestedDocs

\* ------------------------------------------------------------------------
\* extract_articles_from_html, one step per table
\* ------------------------------------------------------------------------
VARIABLES html, tables, idx, articles, result, epc, faulted

evars == <<html, tables, idx, articles, result, epc, faulted>>

\* the state of one run of the program
VARIABLES rpc, mail, logouts, sidx, allIds, searchLog, searchRaised, emailIds,
          fetched, msgs, fetchArticles, path, runArticles, genLog, summary,
          smtpOpened, sends

rvars == <<rpc, mail, logouts, sidx, allIds, searchLog, searchRaised, emailIds,
           fetched, msgs, fetchArticles, path, runArticles, genLog, summary,
           smtpOpened, sends>>

\* get_email_body: the message, the position of the walk and the local body
VARIABLES bmsg, bidx, body, bpc

bvars == <<bmsg, bidx, body, bpc>>

vars == <<evars, rvars, bvars>>

ExtractInit ==
    /\ html \in Docs
    /\ tables = <<>>
    /\ idx = 0
    /\ articles = <<>>
    /\ result = <<>>
    /\ epc = "parse"
    /\ faulted = FALSE

\* soup = BeautifulSoup(html, 'lxml'); tables = soup.find_all(...)
Parse ==
    /\ epc = "parse"
    /\ tables' = FindTables(html)
    /\ idx' = 1
    /\ epc' = "loop"
    /\ UNCHANGED <<rvars, bvars, html, articles, result, faulted>>

\* for table in tables: ...
LoopStep ==
    /\ epc = "loop"
    /\ idx <= Len(tables)
    /\ articles' = ProcessTable(articles, tables[idx])
    /\ idx' = idx + 1
    /\ UNCHANGED <<rvars, bvars, html, tables, result, epc, faulted>>

\* return articles[:20]
Return ==
    /\ epc = "loop"
    /\ idx > Len(tables)
    /\ result' = CapArticles(articles)
    /\ epc' = "done"
    /\ UNCHANGED <<rvars, bvars, html, tables, idx, articles, faulted>>

\* an exception anywhere inside the try block: except Exception -> return []
Fault ==
    /\ epc \in {"parse", "loop"}
    /\ result' = OnFault(articles)
    /\ faulted' = TRUE
    /\ epc' = "done"
    /\ UNCHANGED <<rvars, bvars, html, tables, idx, articles>>

ExtractNext == Parse \/ LoopStep \/ Return \/ Fault

\* the extractor is not running
ExtractIdle ==
    /\ html = <<>>
    /\ tables = <<>>
    /\ idx = 0
    /\ articles = <<>>
    /\ result = <<>>
    /\ epc = "idle"
    /\ faulted = FALSE

\* ------------------------------------------------------------------------
\* Message identifiers: byte strings of decimal digits
\* ------------------------------------------------------------------------
DigitVal(c) ==
    CASE c = "0" -> 0 [] c = "1" -> 1 [] c = "2" -> 2 [] c = "3" -> 3 [] c = "4" -> 4
      [] c = "5" -> 5 [] c = "6" -> 6 [] c = "7" -> 7 [] c = "8" -> 8 [] c = "9" -> 9

\* int(x)
RECURSIVE IntOf(_)
IntOf(s) ==
    IF Len(s) = 0 THEN 0
    ELSE 10 * IntOf(SubSeq(s, 1, Len(s) - 1)) + DigitVal(SubSeq(s, Len(s), Len(s)))

\* byte-string order
RECURSIVE LexLess(_, _)
LexLess(a, b) ==
    IF Len(b) = 0 THEN FALSE
    ELSE IF Len(a) = 0 THEN TRUE
    ELSE IF SubSeq(a, 1, 1) # SubSeq(b, 1, 1)
         THEN DigitVal(SubSeq(a, 1, 1)) < DigitVal(SubSeq(b, 1, 1))
    ELSE LexLess(SubSeq(a, 2, Len(a)), SubSeq(b, 2, Len(b)))

\* sorted(unique_ids) without the key: byte-string order
RECURSIVE SortIdsLex(_)
SortIdsLex(S) ==
    IF S = {} THEN <<>>
    ELSE LET m == CHOOSE x \in S : \A y \in S \ {x} : LexLess(x, y)
         IN  <<m>> \o SortIdsLex(S \ {m})

\* sorted(unique_ids, key=lambda x: int(x))
RECURSIVE SortIds(_)
SortIds(S) ==
    IF S = {} THEN <<>>
    ELSE LET m == CHOOSE x \in S : \A y \in S : IntOf(x) <= IntOf(y)
         IN  <<m>> \o SortIds(S \ {m})

\* set(all_email_ids)
ToSet(seq) == {seq[i] : i \in 1..Len(seq)}

\* the identifiers the mailbox may report
IdPool == {"2", "9", "10"}

\* ------------------------------------------------------------------------
\* Mail messages: the parts in walk order, each with a content type, a
\* declared charset ("" when none is declared) and a payload; a payload is
\* empty or holds the bytes of an HTML document in some encoding.  The
\* documents are taken to hold non-ASCII text, so that a wrong codec shows.
\* ------------------------------------------------------------------------
\* body = "": the empty string the function starts with
EmptyStr == [present |-> FALSE, doc |-> <<>>, str |-> TRUE]
\* an empty payload: b''
EmptyBody == [present |-> FALSE, doc |-> <<>>]
HtmlBody(doc) == [present |-> TRUE, doc |-> doc, enc |-> "utf-8"]
Latin1Body(doc) == [present |-> TRUE, doc |-> doc, enc |-> "latin-1"]
PartIn(ctype, charset, payload) == [ctype |-> ctype, charset |-> charset, payload |-> payload]
Part(ctype, payload) == PartIn(ctype, "", payload)

\* the codecs Python knows, among the charsets the messages declare
KnownCodecs == {"utf-8", "latin-1"}

\* body.decode('utf-8', errors='ignore')
DecodeIgnore(payload) ==
    [present |-> TRUE, doc |-> payload.doc,
     text |-> IF payload.enc = "utf-8" THEN "exact" ELSE "lossy"]

\* try: body.decode(charset or 'utf-8')  except: body.decode('utf-8', errors='ignore')
Decode(payload, charset) ==
    LET cs == IF charset = "" THEN "utf-8" ELSE charset IN
    IF cs \notin KnownCodecs THEN DecodeIgnore(payload)
    ELSE IF cs = "utf-8" /\ payload.enc # "utf-8" THEN DecodeIgnore(payload)
    ELSE [present |-> TRUE, doc |-> payload.doc,
          text |-> IF cs = payload.enc THEN "exact" ELSE "mojibake"]

\* the walk never leaving at a text/html part: the last such part wins
VisitPartNoBreak(cur, part) ==
    IF part.ctype # "text/html" THEN [body |-> cur, stop |-> FALSE]
    ELSE IF part.payload.present
         THEN [body |-> Decode(part.payload, part.charset), stop |-> FALSE]
    ELSE [body |-> part.payload, stop |-> FALSE]

\* one iteration of the loop over msg.walk(): the new value of body, and
\* whether the break was taken
VisitPart(cur, part) ==
    IF part.ctype # "text/html" THEN [body |-> cur, stop |-> FALSE]
    ELSE IF part.payload.present
         THEN [body |-> Decode(part.payload, part.charset), stop |-> TRUE]
    ELSE [body |-> part.payload, stop |-> FALSE]

\* the else branch: a message that is not multi-part
SinglePart(part) ==
    IF part.ctype # "text/html" THEN EmptyStr
    ELSE IF part.payload.present THEN Decode(part.payload, part.charset)
    ELSE part.payload

RECURSIVE WalkFrom(_, _, _)
WalkFrom(cur, parts, i) ==
    IF i > Len(parts) THEN cur
    ELSE LET r == VisitPart(cur, parts[i])
         IN  IF r.stop THEN r.body ELSE WalkFrom(r.body, parts, i + 1)

\* get_email_body
GetEmailBody(msg) ==
    IF msg.multipart THEN WalkFrom(EmptyStr, msg.parts, 1) ELSE SinglePart(msg.parts[1])

DocTwo == <<Table(<<Anchor(LinkA, <<"Alpha">>)>>, <<Span(FontStyle, GoodSummary)>>),
            Titled(LinkB, "Beta")>>
DocSponsor == <<Titled(LinkC, "Acme Tool (Sponsor)")>>

Messages == {
    [multipart |-> TRUE,
     parts |-> <<Part("text/plain", HtmlBody(DocSponsor)), Part("text/html", HtmlBody(DocTwo))>>],
    [multipart |-> FALSE, parts |-> <<Part("text/html", HtmlBody(DocSponsor))>>],
    [multipart |-> FALSE, parts |-> <<Part("text/plain", HtmlBody(DocTwo))>>],
    [multipart |-> TRUE,
     parts |-> <<Part("text/html", EmptyBody), Part("text/html", HtmlBody(DocTwo))>>],
    [multipart |-> TRUE, parts |-> <<Part("text/html", EmptyBody)>>]
}

\* the multipart/* part that msg.walk() yields first
Container == PartIn("multipart/alternative", "", EmptyBody)

PartPalette == {
    PartIn("text/plain", "utf-8", HtmlBody(DocSponsor)),
    PartIn("application/xhtml+xml", "utf-8", HtmlBody(DocTwo)),
    PartIn("text/html", "utf-8", EmptyBody),
    PartIn("text/html", "utf-8", HtmlBody(DocTwo)),
    PartIn("text/html", "", HtmlBody(DocSponsor)),
    PartIn("text/html", "utf-8", Latin1Body(DocTwo)),
    PartIn("text/html", "latin-1", HtmlBody(DocSponsor)),
    PartIn("text/html", "x-unknown", Latin1Body(DocSponsor))
}

BodyMessages ==
    {[multipart |-> TRUE, parts |-> <<Container>> \o p] : p \in SeqsUpTo(PartPalette, MaxParts)}
    \cup {[multipart |-> FALSE, parts |-> <<p>>] : p \in PartPalette}

\* ------------------------------------------------------------------------
\* get_email_body, one step per part of the walk
\* ------------------------------------------------------------------------
BodyInit ==
    /\ bmsg \in BodyMessages
    /\ bidx = 0
    /\ body = EmptyStr
    /\ bpc = "begin"

\* get_email_body is not running
BodyIdle ==
    /\ bmsg = <<>>
    /\ bidx = 0
    /\ body = EmptyStr
    /\ bpc = "idle"

\* if msg.is_multipart(): for part in msg.walk():
BeginWalk ==
    /\ bpc = "begin"
    /\ bmsg.multipart
    /\ bidx' = 1
    /\ bpc' = "walk"
    /\ UNCHANGED <<evars, rvars, bmsg, body>>

\* else: the single part; return body
ReadSinglePart ==
    /\ bpc = "begin"
    /\ ~bmsg.multipart
    /\ body' = SinglePart(bmsg.parts[1])
    /\ bidx' = 1
    /\ bpc' = "done"
    /\ UNCHANGED <<evars, rvars, bmsg>>

\* one part of the walk; after a break, return body
WalkStep ==
    /\ bpc = "walk"
    /\ bidx <= Len(bmsg.parts)
    /\ LET r == VisitPart(body, bmsg.parts[bidx])
       IN  /\ body' = r.body
           /\ IF r.stop
              THEN bpc' = "done" /\ bidx' = bidx
              ELSE bpc' = bpc /\ bidx' = bidx + 1
    /\ UNCHANGED <<evars, rvars, bmsg>>

\* the walk is exhausted; return body
WalkEnd ==
    /\ bpc = "walk"
    /\ bidx > Len(bmsg.parts)
    /\ bpc' = "done"
    /\ UNCHANGED <<evars, rvars, bmsg, bidx, body>>

BodyNext == BeginWalk \/ ReadSinglePart \/ WalkStep \/ WalkEnd

\* ------------------------------------------------------------------------
\* The rewriter's reply and the code-fence removal of summarize_articles
\* ------------------------------------------------------------------------
\* A TLA+ string cannot hold the backquote: "~" stands for it below, so that
\* "~~~" is the code fence.
\* the longest run of whitespace at the head of s
RECURSIVE SpaceRun(_)
SpaceRun(s) ==
    IF Len(s) > 0 /\ IsSpace(SubSeq(s, 1, 1)) THEN 1 + SpaceRun(SubSeq(s, 2, Len(s))) ELSE 0

\* re.sub(r'<fence>html\s*\n?', '', s)
RECURSIVE DropOpenFence(_)
DropOpenFence(s) ==
    IF Len(s) = 0 THEN ""
    ELSE IF StartsWith(s, "~~~html")
         THEN LET rest == SubSeq(s, 8, Len(s))
              IN  DropOpenFence(SubSeq(rest, SpaceRun(rest) + 1, Len(rest)))
    ELSE SubSeq(s, 1, 1) \o DropOpenFence(SubSeq(s, 2, Len(s)))

\* re.sub(r'<fence>\s*$', '', s, flags=re.MULTILINE): the fence and the longest
\* whitespace run after it that stops at the end of the text or before a newline
RECURSIVE DropCloseFence(_)
DropCloseFence(s) ==
    IF Len(s) = 0 THEN ""
    ELSE IF StartsWith(s, "~~~")
         THEN LET rest == SubSeq(s, 4, Len(s))
                  w == SpaceRun(rest)
                  E == {k \in 0..w : k = Len(rest) \/ SubSeq(rest, k + 1, k + 1) = "\n"}
              IN  IF E = {}
                  THEN "~~~" \o DropCloseFence(rest)
                  ELSE LET k == CHOOSE x \in E : \A y \in E : y <= x
                       IN  DropCloseFence(SubSeq(rest, k + 1, Len(rest)))
    ELSE SubSeq(s, 1, 1) \o DropCloseFence(SubSeq(s, 2, Len(s)))

\* the value summarize_articles returns for a reply
CleanReply(raw) == GetText(DropCloseFence(DropOpenFence(raw)))

Replies == {"<h1>News</h1>\n<p>Text</p>",
            "~~~html\n<h1>News</h1>\n~~~",
            "~~~html\n~~~\n",
            ""}

\* ------------------------------------------------------------------------
\* One run of the program
\* ------------------------------------------------------------------------
\* the positions inside fetch_tldr_newsletter
FetchPcs == {"connect", "select", "search", "sort", "fetch", "body", "extract", "finally"}

RunInit ==
    /\ rpc = "connect"
    /\ mail = "None"
    /\ logouts = 0
    /\ sidx = 1
    /\ allIds = <<>>
    /\ searchLog = <<>>
    /\ searchRaised = FALSE
    /\ emailIds = <<>>
    /\ fetched = <<>>
    /\ msgs = <<>>
    /\ fetchArticles = <<>>
    /\ path = "running"
    /\ runArticles = <<>>
    /\ genLog = <<>>
    /\ summary = <<>>
    /\ smtpOpened = 0
    /\ sends = <<>>

\* logout placed at the end of the try block: the except branch skips it
LeaveSkippingFinally(why) == IF why = "exception" THEN "main" ELSE "finally"

\* every return and the except branch of fetch_tldr_newsletter pass through
\* the finally block before control is back in the caller
Leave(why) == "finally"

\* leaving fetch_tldr_newsletter with the value of its local articles
LeaveFetch(why) ==
    /\ rpc' = Leave(why)
    /\ path' = why

\* mail = connect_gmail()
ConnectOk ==
    /\ rpc = "connect"
    /\ mail' = "open"
    /\ rpc' = "select"
    /\ UNCHANGED <<evars, bvars, logouts, sidx, allIds, searchLog, searchRaised, emailIds, fetched, msgs,
                   fetchArticles, path, runArticles, genLog, summary, smtpOpened, sends>>

\* connect_gmail raises: caught by the except branch, mail is still None
ConnectFail ==
    /\ rpc = "connect"
    /\ LeaveFetch("connect_failed")
    /\ UNCHANGED <<evars, bvars, mail, logouts, sidx, allIds, searchLog, searchRaised, emailIds, fetched,
                   msgs, fetchArticles, runArticles, genLog, summary, smtpOpened, sends>>

\* mail.select('inbox')
SelectOk ==
    /\ rpc = "select"
    /\ rpc' = "search"
    /\ UNCHANGED <<evars, bvars, mail, logouts, sidx, allIds, searchLog, searchRaised, emailIds, fetched,
                   msgs, fetchArticles, path, runArticles, genLog, summary, smtpOpened, sends>>

\* mail.search for one sender, the reply's status being OK or not
SearchSender ==
    /\ rpc = "search"
    /\ sidx <= NumSenders
    /\ \E status \in {"OK", "NO"}, ids \in SUBSET IdPool :
          /\ status = "NO" => ids = {}
          /\ searchLog' = Append(searchLog, [status |-> status, ids |-> ids])
          /\ allIds' = IF status # "OK" THEN allIds ELSE allIds \o SortIds(ids)
    /\ sidx' = sidx + 1
    /\ UNCHANGED <<evars, bvars, rpc, mail, logouts, searchRaised, emailIds, fetched, msgs, fetchArticles,
                   path, runArticles, genLog, summary, smtpOpened, sends>>

\* an exception inside search_recent_emails: its except branch returns []
SearchRaises ==
    /\ rpc \in {"select", "search"}
    /\ searchRaised' = TRUE
    /\ emailIds' = <<>>
    /\ LeaveFetch("no_message")
    /\ UNCHANGED <<evars, bvars, mail, logouts, sidx, allIds, searchLog, fetched, msgs, fetchArticles,
                   runArticles, genLog, summary, smtpOpened, sends>>

\* the end of search_recent_emails and the test of its result
SearchDone ==
    /\ rpc = "search"
    /\ sidx > NumSenders
    /\ emailIds' = SortIds(ToSet(allIds))
    /\ IF emailIds' = <<>>
       THEN LeaveFetch("no_message")
       ELSE rpc' = "fetch" /\ path' = path
    /\ UNCHANGED <<evars, bvars, mail, logouts, sidx, allIds, searchLog, searchRaised, fetched, msgs,
                   fetchArticles, runArticles, genLog, summary, smtpOpened, sends>>

\* email_ids[-1]
LatestId(ids) == ids[Len(ids)]

\* mail.fetch(latest_email_id, '(RFC822)') answering OK with a message
FetchOk ==
    /\ rpc = "fetch"
    /\ fetched' = Append(fetched, LatestId(emailIds))
    /\ \E m \in Messages : msgs' = Append(msgs, m)
    /\ rpc' = "body"
    /\ UNCHANGED <<evars, bvars, mail, logouts, sidx, allIds, searchLog, searchRaised, emailIds,
                   fetchArticles, path, runArticles, genLog, summary, smtpOpened, sends>>

\* mail.fetch answering with a status other than OK
FetchNotOk ==
    /\ rpc = "fetch"
    /\ fetched' = Append(fetched, LatestId(emailIds))
    /\ LeaveFetch("fetch_failed")
    /\ UNCHANGED <<evars, bvars, mail, logouts, sidx, allIds, searchLog, searchRaised, emailIds, msgs,
                   fetchArticles, runArticles, genLog, summary, smtpOpened, sends>>

\* mail.fetch raising
FetchRaises ==
    /\ rpc = "fetch"
    /\ fetched' = Append(fetched, LatestId(emailIds))
    /\ LeaveFetch("exception")
    /\ UNCHANGED <<evars, bvars, mail, logouts, sidx, allIds, searchLog, searchRaised, emailIds, msgs,
                   fetchArticles, runArticles, genLog, summary, smtpOpened, sends>>

\* html_body = get_email_body(msg) and the test of it
ReadBody ==
    /\ rpc = "body"
    /\ IF GetEmailBody(msgs[1]).present
       THEN rpc' = "extract" /\ path' = path
       ELSE LeaveFetch("no_html")
    /\ UNCHANGED <<evars, bvars, mail, logouts, sidx, allIds, searchLog, searchRaised, emailIds, fetched,
                   msgs, fetchArticles, runArticles, genLog, summary, smtpOpened, sends>>

\* parsing or decoding the message raises
BodyRaises ==
    /\ rpc = "body"
    /\ LeaveFetch("exception")
    /\ UNCHANGED <<evars, bvars, mail, logouts, sidx, allIds, searchLog, searchRaised, emailIds, fetched,
                   msgs, fetchArticles, runArticles, genLog, summary, smtpOpened, sends>>

\* articles = extract_articles_from_html(html_body); return articles
ExtractBody ==
    /\ rpc = "extract"
    /\ \/ fetchArticles' = ExtractArticles(GetEmailBody(msgs[1]).doc)
       \/ fetchArticles' = OnFault(<<>>)
    /\ LeaveFetch("extracted")
    /\ UNCHANGED <<evars, bvars, mail, logouts, sidx, allIds, searchLog, searchRaised, emailIds, fetched,
                   msgs, runArticles, genLog, summary, smtpOpened, sends>>

\* finally: if mail: mail.logout(); then the function returns its articles
Finally ==
    /\ rpc = "finally"
    /\ logouts' = IF mail = "open" THEN logouts + 1 ELSE logouts
    /\ mail' = IF mail = "open" THEN "closed" ELSE mail
    /\ runArticles' = fetchArticles
    /\ rpc' = "main"
    /\ UNCHANGED <<evars, bvars, sidx, allIds, searchLog, searchRaised, emailIds, fetched, msgs,
                   fetchArticles, path, genLog, summary, smtpOpened, sends>>

\* mail.logout() raising inside the finally block: the exception leaves
\* fetch_tldr_newsletter and ends the program
LogoutRaises ==
    /\ rpc = "finally"
    /\ mail = "open"
    /\ logouts' = logouts + 1
    /\ rpc' = "aborted"
    /\ UNCHANGED <<evars, bvars, mail, sidx, allIds, searchLog, searchRaised, emailIds, fetched, msgs,
                   fetchArticles, path, runArticles, genLog, summary, smtpOpened, sends>>

\* the rewriting started whatever the retrieval gave
HasArticlesAlways(arts) == TRUE

\* if articles:
HasArticles(arts) == arts # <<>>

\* the branch of __main__ on the result of the retrieval
MainBranch ==
    /\ rpc = "main"
    /\ rpc' = IF HasArticles(runArticles) THEN "init_client" ELSE "done"
    /\ UNCHANGED <<evars, bvars, mail, logouts, sidx, allIds, searchLog, searchRaised, emailIds, fetched,
                   msgs, fetchArticles, path, runArticles, genLog, summary, smtpOpened, sends>>

\* client = init_azure_openai()
InitClientOk ==
    /\ rpc = "init_client"
    /\ genLog' = Append(genLog, "init_ok")
    /\ rpc' = "summarize"
    /\ UNCHANGED <<evars, bvars, mail, logouts, sidx, allIds, searchLog, searchRaised, emailIds, fetched,
                   msgs, fetchArticles, path, runArticles, summary, smtpOpened, sends>>

\* init_azure_openai raises: except branch of __main__
InitClientFail ==
    /\ rpc = "init_client"
    /\ genLog' = Append(genLog, "init_failed")
    /\ rpc' = "dispatch"
    /\ UNCHANGED <<evars, bvars, mail, logouts, sidx, allIds, searchLog, searchRaised, emailIds, fetched,
                   msgs, fetchArticles, path, runArticles, summary, smtpOpened, sends>>

\* summary = summarize_articles(client, articles); print_summary(summary)
SummarizeOk ==
    /\ rpc = "summarize"
    /\ \E raw \in Replies : summary' = <<CleanReply(raw)>>
    /\ genLog' = Append(genLog, "request_ok")
    /\ rpc' = "dispatch"
    /\ UNCHANGED <<evars, bvars, mail, logouts, sidx, allIds, searchLog, searchRaised, emailIds, fetched,
                   msgs, fetchArticles, path, runArticles, smtpOpened, sends>>

\* the request (or the reading of its reply) raises: summary stays None
SummarizeFail ==
    /\ rpc = "summarize"
    /\ genLog' = Append(genLog, "request_failed")
    /\ rpc' = "dispatch"
    /\ UNCHANGED <<evars, bvars, mail, logouts, sidx, allIds, searchLog, searchRaised, emailIds, fetched,
                   msgs, fetchArticles, path, runArticles, summary, smtpOpened, sends>>

\* the dispatch attempted whatever the rewriting gave
ShouldSendAlways(sum) == TRUE

\* if summary:
ShouldSend(sum) == sum # <<>> /\ sum[1] # ""

\* the dispatch branch of __main__ and the opening of the SMTP connection
Dispatch ==
    /\ rpc = "dispatch"
    /\ IF ShouldSend(summary)
       THEN /\ smtpOpened' = smtpOpened + 1
            /\ rpc' \in {"send", "done"}
       ELSE /\ smtpOpened' = smtpOpened
            /\ rpc' = "done"
    /\ UNCHANGED <<evars, bvars, mail, logouts, sidx, allIds, searchLog, searchRaised, emailIds, fetched,
                   msgs, fetchArticles, path, runArticles, genLog, summary, sends>>

\* server.sendmail for the next recipient
SendOne ==
    /\ rpc = "send"
    /\ Len(sends) < NumRecipients
    /\ sends' = Append(sends, Len(sends) + 1)
    /\ UNCHANGED <<evars, bvars, rpc, mail, logouts, sidx, allIds, searchLog, searchRaised, emailIds, fetched,
                   msgs, fetchArticles, path, runArticles, genLog, summary, smtpOpened>>

\* the loop over the recipients ends, or a sendmail raises: the run ends
SendEnd ==
    /\ rpc = "send"
    /\ rpc' = "done"
    /\ UNCHANGED <<evars, bvars, mail, logouts, sidx, allIds, searchLog, searchRaised, emailIds, fetched,
                   msgs, fetchArticles, path, runArticles, genLog, summary, smtpOpened, sends>>

RunNext ==
    \/ ConnectOk \/ ConnectFail \/ SelectOk \/ SearchSender \/ SearchRaises \/ SearchDone
    \/ FetchOk \/ FetchNotOk \/ FetchRaises \/ ReadBody \/ BodyRaises \/ ExtractBody
    \/ Finally \/ LogoutRaises \/ MainBranch
    \/ InitClientOk \/ InitClientFail \/ SummarizeOk \/ SummarizeFail
    \/ Dispatch \/ SendOne \/ SendEnd

Init == RunInit /\ ExtractIdle /\ BodyIdle

Spec == Init /\ [][RunNext]_vars

InitExtract == ExtractInit /\ RunInit /\ BodyIdle

SpecExtract == InitExtract /\ [][ExtractNext]_vars

InitBody == BodyInit /\ RunInit /\ ExtractIdle

SpecBody == InitBody /\ [][BodyNext]_vars

\* ------------------------------------------------------------------------
\* Properties of a run
\* ------------------------------------------------------------------------
InSeq(seq, x) == \E i \in 1..Len(seq) : seq[i] = x

GenFailed == InSeq(genLog, "init_failed") \/ InSeq(genLog, "request_failed")

Dispatched == smtpOpened > 0 \/ sends # <<>>

\* C7: when the client initialisation or the text-generation request fails,
\* the dispatcher is never invoked and the run goes on to its normal end; the
\* dispatcher is invoked only after a request that succeeded with non-empty text.
C7_NoDispatchWithoutText ==
    /\ GenFailed => (~Dispatched /\ rpc \in {"dispatch", "done"})
    /\ Dispatched =>
          /\ InSeq(genLog, "request_ok")
          /\ summary # <<>>
          /\ summary[1] # ""

\* articles were extracted, the rewriting failed and the run is at its end
C7_Witness ==
    /\ runArticles # <<>>
    /\ InSeq(genLog, "request_failed")
    /\ rpc = "done"

\* C8: once the mailbox connection is established, logout is called exactly
\* once before fetch_tldr_newsletter is left, on every path, and so before any
\* rewriter or dispatcher call.
C8_LogoutOnce ==
    /\ logouts <= 1
    /\ mail = "None" => logouts = 0
    /\ (mail # "None" /\ rpc \notin FetchPcs) => logouts = 1
    /\ (mail # "None" /\ (genLog # <<>> \/ Dispatched)) => logouts = 1

\* an exception after the connection was made, and the run at its end
C8_Witness ==
    /\ path = "exception"
    /\ mail # "None"
    /\ logouts = 1
    /\ rpc = "done"

OkIds == UNION {searchLog[k].ids : k \in {i \in 1..Len(searchLog) : searchLog[i].status = "OK"}}

\* C10: at most one message is fetched, and it is the numerically greatest
\* identifier among those returned by the searches that answered OK; a failed
\* search for one sender does not keep the others from being used.
C10_FetchesLatestOnly ==
    /\ Len(fetched) <= 1
    /\ fetched # <<>> =>
          /\ fetched[1] \in OkIds
          /\ \A x \in OkIds : IntOf(x) <= IntOf(fetched[1])
    /\ (mail # "None" /\ rpc \notin {"connect", "select", "search", "fetch"}
            /\ ~searchRaised /\ OkIds # {}) => Len(fetched) = 1

\* one search failed, another returned 9 and 10, and 10 was fetched
C10_Witness ==
    /\ fetched = <<"10">>
    /\ "9" \in OkIds
    /\ \E k \in 1..Len(searchLog) : searchLog[k].status = "NO"

\* ------------------------------------------------------------------------
\* Properties of get_email_body
\* ------------------------------------------------------------------------
HtmlParts(parts) == {i \in 1..Len(parts) : parts[i].ctype = "text/html"}

FilledHtmlParts(parts) == {i \in HtmlParts(parts) : parts[i].payload.present}

Lowest(S) == CHOOSE i \in S : \A j \in S : i <= j

\* C11: for a multi-part message the result is the decoded content of the
\* first text/html part of the walk, also when that part's payload is empty,
\* and no later part influences it; with no text/html part the result is the
\* empty string.
C11_FirstHtmlPart ==
    bpc = "done" =>
        LET H == HtmlParts(bmsg.parts) IN
        /\ H = {} => body = EmptyStr
        /\ (bmsg.multipart /\ H # {}) =>
              LET p == bmsg.parts[Lowest(H)]
              IN  IF p.payload.present
                  THEN body = Decode(p.payload, p.charset)
                  ELSE ~body.present

\* C11 as amended: for a multi-part message the result is the decoded
\* content of the first text/html part of the walk whose payload is not
\* empty, and the walk stops there; text/html parts with an empty payload are
\* passed over, and the result is empty when every text/html part is empty;
\* with no text/html part the result is the empty string.
C11_FirstFilledHtmlPart ==
    bpc = "done" =>
        LET H == HtmlParts(bmsg.parts)
            F == FilledHtmlParts(bmsg.parts)
        IN  /\ H = {} => body = EmptyStr
            /\ (bmsg.multipart /\ H # {} /\ F = {}) => ~body.present
            /\ (bmsg.multipart /\ F # {}) =>
                  /\ body = Decode(bmsg.parts[Lowest(F)].payload,
                                   bmsg.parts[Lowest(F)].charset)
                  /\ bidx = Lowest(F)

\* an empty text/html part, then a filled one that is returned, then another
\* filled one with a different content
C11_Witness ==
    /\ bpc = "done"
    /\ bmsg.multipart
    /\ \E i, j, k \in HtmlParts(bmsg.parts) :
          /\ i < j /\ j < k
          /\ i = Lowest(HtmlParts(bmsg.parts))
          /\ ~bmsg.parts[i].payload.present
          /\ bmsg.parts[j].payload.present
          /\ bmsg.parts[k].payload.present
          /\ bmsg.parts[k].payload.doc # bmsg.parts[j].payload.doc
          /\ body.doc = bmsg.parts[j].payload.doc

\* ------------------------------------------------------------------------
\* Properties of extract_articles_from_html
\* ------------------------------------------------------------------------
Returned == epc = "done" /\ ~faulted

\* the candidate containers of the input, in document order
Candidates == SelectSeq(html, LAMBDA t : t.align = "center")

NoRecord == [title |-> "", summary |-> "", link |-> ""]

\* for each candidate: does it pass every filter, and the record it yields
Scan(cands) ==
    [i \in 1..Len(cands) |->
        IF PassesFilters(cands[i])
        THEN [ok |-> TRUE, rec |-> RecordOf(cands[i])]
        ELSE [ok |-> FALSE, rec |-> NoRecord]]

\* the candidates that pass every filter and carry the given link
Carriers(scan, link) == {j \in DOMAIN scan : scan[j].ok /\ scan[j].rec.link = link}

First(S) == CHOOSE i \in S : \A j \in S : i <= j

\* the candidates that pass every filter and do not repeat an earlier link
Accepted(scan) ==
    {i \in DOMAIN scan :
        /\ scan[i].ok
        /\ \A j \in 1..(i - 1) : scan[j].ok => scan[j].rec.link # scan[i].rec.link}

\* C1: the returned records have pairwise different links, and the record
\* kept for a link has the title and summary of the first candidate, in
\* document order, that passes the filters and carries that link.
C1_UniqueLinkFirstWins ==
    Returned =>
        LET scan == Scan(Candidates) IN
        /\ \A i, j \in 1..Len(result) : i # j => result[i].link # result[j].link
        /\ \A i \in 1..Len(result) :
              LET car == Carriers(scan, result[i].link) IN
              /\ car # {}
              /\ result[i].title = scan[First(car)].rec.title
              /\ result[i].summary = scan[First(car)].rec.summary

\* two passing candidates share a link, differ in title, and the link is returned
C1_Witness ==
    /\ Returned
    /\ LET scan == Scan(Candidates) IN
       \E i \in 1..Len(result) :
          \E j, k \in Carriers(scan, result[i].link) :
              j < k /\ scan[j].rec.title # scan[k].rec.title

\* C2: at most 20 records are returned, and they are the first min(20, n) of
\* the n accepted records in document order; rejected candidates do not count.
C2_CapFirstTwenty ==
    Returned =>
        LET scan == Scan(Candidates)
            acc == Accepted(scan)
        IN  /\ Len(result) <= 20
            /\ Len(result) = Min(20, Cardinality(acc))
            /\ \A k \in 1..Len(result) :
                  \E i \in acc :
                      /\ Cardinality({j \in acc : j <= i}) = k
                      /\ result[k] = scan[i].rec

\* more than 20 accepted records behind a candidate rejected for its tracking link
C2_Witness ==
    /\ Returned
    /\ Len(result) = 20
    /\ Cardinality(Accepted(Scan(Candidates))) > 20
    /\ Len(Candidates[1].anchors) = 1
    /\ Contains(Candidates[1].anchors[1].href, "tldr.tech")

\* C3: every returned record has a non-empty title and a link containing 'http'.
C3_TitleAndScheme ==
    epc = "done" =>
        \A i \in 1..Len(result) :
            result[i].title # "" /\ Contains(result[i].link, "http")

\* C4: no returned record has a sponsor title or a tracking-domain link.
C4_NoExcluded ==
    Returned =>
        \A i \in 1..Len(result) :
            /\ ~Contains(result[i].title, "(Sponsor)")
            /\ ~StartsWith(result[i].title, "Looking for a practical")
            /\ ~StartsWith(result[i].title, "Get it free")
            /\ ~StartsWith(result[i].title, "Try it free")
            /\ ~StartsWith(result[i].title, "Together With")
            /\ ~Contains(result[i].link, "tldr.tech")
            /\ ~Contains(result[i].link, "techplatforms.com")

\* a sponsor-titled candidate and a shortener-link candidate were both scanned
C4_Witness ==
    /\ Returned
    /\ \E i, j \in 1..Len(Candidates) :
          /\ Len(Candidates[i].anchors) = 1
          /\ Candidates[i].anchors[1].strong = <<"Acme Tool (Sponsor)">>
          /\ Len(Candidates[j].anchors) = 1
          /\ Contains(Candidates[j].anchors[1].href, "techplatforms.com")
          /\ Candidates[j].anchors[1].strong # <<>>

\* the spans of a candidate that the summary rule selects for a title
Qualifying(table, title) ==
    {s \in 1..Len(table.spans) :
        /\ Contains(table.spans[s].style, "font-family")
        /\ Len(GetText(table.spans[s].text)) > 30
        /\ GetText(table.spans[s].text) # title}

\* C5: a record's summary is the first 300 characters of the trimmed text of
\* the first qualifying span of its container; with no qualifying span it is
\* the title cut to 200 characters; no summary exceeds 300 characters.
C5_Summary ==
    Returned =>
        LET cands == Candidates
            scan == Scan(cands)
        IN  \A i \in 1..Len(result) :
                LET src == cands[First(Carriers(scan, result[i].link))]
                    Q == Qualifying(src, result[i].title)
                IN  /\ Q # {} =>
                          result[i].summary = Take(GetText(src.spans[First(Q)].text), 300)
                    /\ Q = {} => result[i].summary = Take(result[i].title, 200)
                    /\ Len(result[i].summary) <= 300

\* one record cut from a longer span and one record falling back to a title
\* of more than 200 characters
C5_Witness ==
    /\ Returned
    /\ LET cands == Candidates
           scan == Scan(cands)
       IN  \E i, j \in 1..Len(result) :
              LET si == cands[First(Carriers(scan, result[i].link))]
                  sj == cands[First(Carriers(scan, result[j].link))]
              IN  /\ Qualifying(si, result[i].title) # {}
                  /\ Len(result[i].summary) = 300
                  /\ Len(si.spans) > 2
                  /\ Qualifying(sj, result[j].title) = {}
                  /\ Len(result[j].title) > 200
                  /\ Len(result[j].summary) = 200

\* C6: the function always returns a sequence, and a fault at any point of
\* the pass makes it return the empty sequence, whatever was gathered.
C6_FaultYieldsEmpty ==
    /\ epc \in {"parse", "loop", "done"}
    /\ faulted => (epc = "done" /\ result = <<>>)

\* a fault after records had been gathered
C6_Witness == faulted /\ epc = "done" /\ articles # <<>>

\* a candidate reduced to the elements whose innermost enclosing candidate
\* it is
OwnView(table) ==
    [table EXCEPT !.anchors = SelectSeq(@, LAMBDA a : a.nest = 0),
                  !.spans = SelectSeq(@, LAMBDA sp : sp.nest = 0)]

\* C12: when a candidate container is nested inside another, the pass over
\* the outer one takes neither its hyperlink, nor its title, nor its summary
\* from elements inside the nested one: the records returned are those of
\* passes that see, in each candidate, only the elements whose innermost
\* enclosing candidate it is.
C12_InnermostOnly ==
    Returned => result = ExtractArticles([i \in 1..Len(html) |-> OwnView(html[i])])

\* a candidate without the hyperlinks whose destination is empty
DropEmptyLinks(table) ==
    [table EXCEPT !.anchors = SelectSeq(@, LAMBDA a : ~(a.hasHref /\ a.href = ""))]

\* C13: the hyperlink used for a candidate is its first hyperlink with a
\* non-empty destination, and the candidate is skipped at this step only
\* when it has no such hyperlink: the records returned are those of passes
\* that do not see the hyperlinks with an empty destination.
C13_FirstNonEmptyLink ==
    Returned => result = ExtractArticles([i \in 1..Len(html) |-> DropEmptyLinks(html[i])])

\* the hyperlinks of a candidate that carry a destination attribute
AttrLinks(table) == {i \in 1..Len(table.anchors) : table.anchors[i].hasHref}

ResultLinks == {result[i].link : i \in 1..Len(result)}

\* C13 as amended: the hyperlink used for a candidate is its first hyperlink
\* that carries a destination attribute, whatever the value.  No later
\* hyperlink of the candidate supplies a record, so the candidate is skipped
\* when that first destination is empty or lacks 'http' even if a later
\* hyperlink has a usable one; when the first destination and its title pass
\* the tests and nothing was cut by the cap, that destination is returned.
C13_FirstLinkWithAttribute ==
    Returned =>
        LET cands == Candidates IN
        \A c \in 1..Len(cands) :
            LET H == AttrLinks(cands[c]) IN
            H # {} =>
                LET first == cands[c].anchors[Lowest(H)] IN
                /\ \A j \in H :
                      LET u == cands[c].anchors[j].href IN
                      (u # first.href /\ u \in ResultLinks) =>
                          \E d \in 1..Len(cands) :
                              /\ d # c
                              /\ AttrLinks(cands[d]) # {}
                              /\ cands[d].anchors[Lowest(AttrLinks(cands[d]))].href = u
                /\ ( /\ IsArticleLink(first.href)
                     /\ ~IsTrackingLink(first.href)
                     /\ first.strong # <<>>
                     /\ ~IsSponsorTitle(GetText(first.strong[1]))
                     /\ Len(result) < MaxArticles )
                   => first.href \in ResultLinks

\* a candidate whose first hyperlink has an empty destination and whose
\* later hyperlink, usable as an article link, is not returned
C13_Witness ==
    /\ Returned
    /\ \E c \in 1..Len(Candidates) :
          LET t == Candidates[c]
              H == AttrLinks(t)
          IN  /\ H # {}
              /\ t.anchors[Lowest(H)].href = ""
              /\ \E j \in H :
                    /\ j > Lowest(H)
                    /\ IsArticleLink(t.anchors[j].href)
                    /\ ~IsTrackingLink(t.anchors[j].href)
                    /\ t.anchors[j].strong # <<>>
                    /\ ~IsSponsorTitle(GetText(t.anchors[j].strong[1]))
                    /\ t.anchors[j].href \notin ResultLinks

====
